---- MODULE Spec2Model ----
(***************************************************************************)
(* Verification model of the Discord webhook manager.                      *)
(*                                                                         *)
(*   RateLimiter            src/unnamed/part_000                           *)
(*   WebhookManager (Dash)  src/Dash/index.js                              *)
(*   WebhookManagerPro      src/System/deepseek_typescript_20251113_588030 *)
(*                                                                         *)
(* Each component has its own specification (SpecRL, SpecDash, SpecSend);  *)
(* the variables of the other components stay at their initial value.      *)
(***************************************************************************)
EXTENDS Integers, Sequences, FiniteSets, TLC

VARIABLES
    \* ---- RateLimiter ----
    requests,     \* Map<string, number[]>: identifier -> timestamps (keys = DOMAIN)
    rlNow,        \* the value Date.now() returned to the latest call
    rlLimit,      \* the limit L the callers pass (fixed per behaviour)
    rlWindow,     \* the window W the callers pass (fixed per behaviour)
    rlLog,        \* history: every checkLimit call, <<[id, t, ok]>>
    rlBefore,     \* history: this.requests as it was before the latest call
    rlQueries,    \* history: every getRemainingRequests call, <<[id, limit, t, value]>>
    \* ---- WebhookManagerPro.sendDiscordWebhook ----
    sendClock,    \* wall clock, ms
    calls,        \* the calls of sendDiscordWebhook: call number -> its activation
    \* ---- WebhookManager (Dash) ----
    webhooks,     \* this.webhooks: the ids of the webhooks in the list
    schedules,    \* this.schedules: the list of schedule objects
    activities,   \* this.activities: the types of the logged activities
    pending,      \* the executeSchedule activations suspended at `await fetch(...)`
    dashNow,      \* wall clock (minutes since 2025-01-01T00:00Z) at the latest tick
    ticks,        \* how often the setInterval callback has run
    tz,           \* the browser's time zone: local time minus UTC, in minutes
    userOps,      \* number of operations the user has performed on the lists
    \* ---- AnalyticsService ----
    enabled,      \* this.enabled
    queue,        \* this.queue: the buffered events, oldest first
    stored,       \* localStorage 'whm_analytics': the local mirror
    flushing,     \* the flush activations suspended at their await, oldest first
    tracked,      \* number of track calls made; an event carries the number of its call
    delivered,    \* history: the events written to the mirror, in the order of writing
    \* ---- one Stats object fed by the stats updaters ----
    stats,        \* the Stats object
    recorded,     \* history: the outcomes recorded into it, <<[success, responseTime]>>
    \* ---- WebhookManagerPro ----
    stateWebhooks,   \* this.state.webhooks: webhook id -> [status, stats]
    stateSchedules,  \* this.state.schedules: schedule id -> [webhookId, stats]
    schedulerJobs,   \* the schedules handed to services.scheduler: id -> webhookId
    isOnline,        \* this.isOnline
    storedWebhooks,  \* localStorage 'whm_pro_webhooks': the ids written last
    running,         \* the operations suspended at `await this.sendDiscordWebhook(...)`
    started,         \* number of testWebhook, sendMessage, handleScheduledTask calls
    writes,          \* number of create, update and delete calls
    lastResult,      \* history: how the latest of the three kinds of call ended
    lastWrite,       \* history: how the latest create, update or delete call ended
    health,          \* the latest run of checkWebhookHealth: its position and its probes
    \* ---- AnalyticsService: consent ----
    consent,         \* localStorage 'whm_analytics_consent' as getConsent() reads it
    loaded           \* AnalyticsService.init() has run

rlVars == <<requests, rlNow, rlLimit, rlWindow, rlLog, rlBefore, rlQueries>>

sendVars == <<sendClock, calls>>

dashVars == <<webhooks, schedules, activities, pending, dashNow, ticks, tz, userOps>>

anVars == <<enabled, queue, stored, flushing, tracked, delivered>>

statsVars == <<stats, recorded>>

proVars == <<stateWebhooks, stateSchedules, schedulerJobs, isOnline, storedWebhooks,
             running, started, writes, lastResult, lastWrite>>

healthVars == <<health>>

consentVars == <<consent, loaded>>

vars == <<rlVars, sendVars, dashVars, anVars, statsVars, proVars, healthVars, consentVars>>

\* what an action of one component leaves alone: the other components
notRL == <<sendVars, dashVars, anVars, statsVars, proVars, healthVars, consentVars>>

notSend == <<rlVars, dashVars, anVars, statsVars, proVars, healthVars, consentVars>>

notDash == <<rlVars, sendVars, anVars, statsVars, proVars, healthVars, consentVars>>

notAn == <<rlVars, sendVars, dashVars, statsVars, proVars, healthVars, consentVars>>

notStats == <<rlVars, sendVars, dashVars, anVars, proVars, healthVars, consentVars>>

notPro == <<rlVars, sendVars, dashVars, anVars, statsVars, healthVars, consentVars>>

notConsent == <<rlVars, sendVars, dashVars, statsVars, proVars, healthVars>>

notHealth == <<rlVars, sendVars, dashVars, anVars, statsVars, consentVars>>

(***************************************************************************)
(* Generic helpers                                                         *)
(***************************************************************************)
Range(s) == {s[i] : i \in DOMAIN s}

EmptyMap == [k \in {} |-> <<>>]

\* m.set(k, v) of a JavaScript Map
MapSet(m, k, v) == [x \in (DOMAIN m) \cup {k} |-> IF x = k THEN v ELSE m[x]]

(***************************************************************************)
(* RateLimiter                                                             *)
(***************************************************************************)
MaxCalls  == 4      \* checkLimit calls in one behaviour
MaxLimit  == 2      \* limits 0..MaxLimit
MaxWindow == 3      \* windows 1..MaxWindow (ms)
MaxDelta  == 3      \* Date.now() advances by 0..MaxDelta ms between calls

Identifiers == {"a", "b"}

\* requests.filter(time => time > windowStart)
RecentRequests(reqs, windowStart) == SelectSeq(reqs, LAMBDA time : time > windowStart)

\* a plausible slip: an inclusive limit test
UnderLimitInclusive(recentRequests, limit) == Len(recentRequests) <= limit

\* recentRequests.length < limit
UnderLimit(recentRequests, limit) == Len(recentRequests) < limit

\* the list checkLimit works on: this.requests.get(identifier) after the has/set
StoredRequests(reqs, identifier) ==
    IF identifier \in DOMAIN reqs THEN reqs[identifier] ELSE <<>>

\* the value checkLimit returns
CheckLimitResult(reqs, identifier, limit, windowMs, now) ==
    UnderLimit(RecentRequests(StoredRequests(reqs, identifier), now - windowMs), limit)

\* this.requests after checkLimit
CheckLimitRequests(reqs, identifier, limit, windowMs, now) ==
    LET recentRequests == RecentRequests(StoredRequests(reqs, identifier), now - windowMs)
    IN  MapSet(reqs, identifier,
               IF UnderLimit(recentRequests, limit)
               THEN Append(recentRequests, now)
               ELSE recentRequests)

RLStart ==
    /\ requests = EmptyMap
    /\ rlNow = 0
    /\ rlLimit \in 0..MaxLimit
    /\ rlWindow \in 1..MaxWindow
    /\ rlLog = <<>>
    /\ rlBefore = EmptyMap
    /\ rlQueries = <<>>

\* one call checkLimit(identifier, rlLimit, rlWindow), delta ms after the previous call
CheckLimit(identifier, delta) ==
    /\ Len(rlLog) < MaxCalls
    /\ rlNow' = rlNow + delta
    /\ requests' = CheckLimitRequests(requests, identifier, rlLimit, rlWindow, rlNow')
    /\ rlLog' = Append(rlLog, [id |-> identifier, t |-> rlNow',
                               ok |-> CheckLimitResult(requests, identifier,
                                                        rlLimit, rlWindow, rlNow')])
    /\ rlBefore' = requests
    /\ UNCHANGED <<rlLimit, rlWindow, rlQueries, notRL>>

MaxQueries == 1     \* getRemainingRequests calls in one behaviour

\* the window of getRemainingRequests: const windowStart = now - 60000
DefaultWindowMs == 60000

\* how far Date.now() advances before a getRemainingRequests call
QueryDeltas == {0, DefaultWindowMs - 1}

\* a plausible slip: the difference is returned as it is
RemainingUnclamped(reqs, identifier, limit, now) ==
    limit - Len(RecentRequests(StoredRequests(reqs, identifier), now - DefaultWindowMs))

\* the value getRemainingRequests returns
RemainingRequests(reqs, identifier, limit, now) ==
    IF identifier \notin DOMAIN reqs
    THEN limit
    ELSE LET recentRequests == RecentRequests(reqs[identifier], now - DefaultWindowMs)
             diff           == limit - Len(recentRequests)
         IN  IF diff > 0 THEN diff ELSE 0

\* one call getRemainingRequests(identifier, limit), delta ms after the previous call
GetRemainingRequests(identifier, limit, delta) ==
    /\ Len(rlQueries) < MaxQueries
    /\ rlNow' = rlNow + delta
    /\ rlQueries' = Append(rlQueries,
                           [id |-> identifier, limit |-> limit, t |-> rlNow',
                            value |-> RemainingRequests(requests, identifier, limit, rlNow')])
    /\ UNCHANGED <<requests, rlLimit, rlWindow, rlLog, rlBefore, notRL>>

(***************************************************************************)
(* WebhookManagerPro.sendDiscordWebhook: one bounded-timeout outbound call *)
(***************************************************************************)
TimeoutMs == 10000  \* setTimeout(() => controller.abort(), 10000)

MaxSends == 2       \* calls of sendDiscordWebhook in one behaviour

CallIds == 1..MaxSends

\* the clock advances by one of these amounts, up to SendHorizon
ElapseSteps == {TimeoutMs \div 2, TimeoutMs - 1, TimeoutMs}

SendHorizon == 2 * TimeoutMs

\* what the server answers: a status and a kind of body
Statuses == {200, 204, 404, 500}

Bodies == {"json", "empty", "text"}

\* response.ok
ResponseOk(status) == status >= 200 /\ status <= 299

NoError == [name |-> "", message |-> "", status |-> 0]

\* the rejection of fetch after controller.abort()
AbortError == [name |-> "AbortError", message |-> "The operation was aborted", status |-> 0]

\* the rejection of fetch (or of the body read) when the network fails
NetworkError == [name |-> "TypeError", message |-> "Failed to fetch", status |-> 0]

\* what response.json() throws on a body that is not JSON (an empty body included)
JsonSyntaxError == [name |-> "SyntaxError", message |-> "Unexpected end of JSON input", status |-> 0]

\* new Error(`HTTP ${response.status}: ${response.statusText}`)
HttpError(status) == [name |-> "Error", message |-> "HTTP", status |-> status]

\* new Error('Request timeout - webhook took too long to respond')
TimeoutError == [name |-> "Error", message |-> "Request timeout", status |-> 0]

\* a plausible slip: every caught error is reported as a timeout
CatchAllAsTimeout(error) == TimeoutError

\* the catch block: what sendDiscordWebhook throws for a caught error
CatchRethrow(error) == IF error.name = "AbortError" THEN TimeoutError ELSE error

\* await response.json(): NoError when the body parses, else the error thrown
JsonResult(body) == IF body = "json" THEN NoError ELSE JsonSyntaxError

\* one activation of sendDiscordWebhook.  timer/deadline: the pending setTimeout;
\* status/body: the response fetch resolved with; outcome/error: how the call ended;
\* cause (history): what happened on the wire
IdleCall == [pc |-> "idle", timer |-> FALSE, deadline |-> 0, status |-> 0, body |-> "",
             outcome |-> "none", error |-> NoError, cause |-> "none"]

SendStart ==
    /\ sendClock = 0
    /\ calls = [c \in CallIds |-> IdleCall]

\* sendDiscordWebhook(url, data) up to its first await: the timer is armed, fetch is issued
BeginCall(clock) ==
    [IdleCall EXCEPT !.pc = "fetching", !.timer = TRUE, !.deadline = clock + TimeoutMs]

SendBegin(c) ==
    /\ calls[c].pc = "idle"
    /\ calls' = [calls EXCEPT ![c] = BeginCall(sendClock)]
    /\ UNCHANGED <<sendClock, notSend>>

\* time passes; a timer that is due runs before the clock moves on
Elapse(d) ==
    /\ sendClock + d <= SendHorizon
    /\ \A c \in CallIds : calls[c].timer => sendClock + d <= calls[c].deadline
    /\ sendClock' = sendClock + d
    /\ UNCHANGED <<calls, notSend>>

\* the setTimeout callback: controller.abort(); a pending fetch rejects with AbortError,
\* which the catch block turns into the timeout error
TimerFires(c) ==
    /\ calls[c].timer
    /\ sendClock >= calls[c].deadline
    /\ calls' = [calls EXCEPT ![c] =
          IF calls[c].pc = "fetching"
          THEN [@ EXCEPT !.timer = FALSE, !.deadline = 0, !.pc = "done",
                         !.outcome = "throw", !.error = CatchRethrow(AbortError),
                         !.cause = "deadline"]
          ELSE [@ EXCEPT !.timer = FALSE, !.deadline = 0]]
    /\ UNCHANGED <<sendClock, notSend>>

\* fetch resolves with a response: clearTimeout, then the response.ok test; the body of
\* a response that is not ok is never read
ResponseArrives(c, status, body) ==
    /\ calls[c].pc = "fetching"
    /\ ~ResponseOk(status) => body = "json"
    /\ calls' = [calls EXCEPT ![c] =
          IF ResponseOk(status)
          THEN [@ EXCEPT !.timer = FALSE, !.deadline = 0, !.status = status,
                         !.body = body, !.pc = "reading", !.cause = "response"]
          ELSE [@ EXCEPT !.timer = FALSE, !.deadline = 0, !.status = status,
                         !.pc = "done", !.outcome = "throw",
                         !.error = CatchRethrow(HttpError(status)),
                         !.cause = "response"]]
    /\ UNCHANGED <<sendClock, notSend>>

\* await response.json() settles: the parsed body is returned, or the parse error is
\* caught and thrown again
BodyRead(c) ==
    /\ calls[c].pc = "reading"
    /\ calls' = [calls EXCEPT ![c] =
          IF JsonResult(calls[c].body) = NoError
          THEN [@ EXCEPT !.pc = "done", !.outcome = "return"]
          ELSE [@ EXCEPT !.pc = "done", !.outcome = "throw",
                         !.error = CatchRethrow(JsonResult(calls[c].body))]]
    /\ UNCHANGED <<sendClock, notSend>>

\* the network fails: fetch (or the body read) rejects with a TypeError; the timer of a
\* pending fetch is not cleared
NetworkFails(c) ==
    /\ calls[c].pc \in {"fetching", "reading"}
    /\ calls' = [calls EXCEPT ![c] =
          [@ EXCEPT !.pc = "done", !.outcome = "throw",
                    !.error = CatchRethrow(NetworkError),
                    !.cause = IF calls[c].pc = "fetching" THEN "network" ELSE "body-network"]]
    /\ UNCHANGED <<sendClock, notSend>>

(***************************************************************************)
(* Date arithmetic of the JavaScript Date object, in minutes.              *)
(* Instants are minutes since 2025-01-01T00:00Z; the years 2025 to 2027    *)
(* have 365 days.  The time zone offset is fixed (no DST change).          *)
(***************************************************************************)
MinutesPerDay == 24 * 60

MonthDays == <<31, 28, 31, 30, 31, 30, 31, 31, 30, 31, 30, 31>>

RECURSIVE DaysBeforeMonth(_)
\* days of the year before month m (0 = January ... 12 = next January)
DaysBeforeMonth(m) == IF m = 0 THEN 0 ELSE DaysBeforeMonth(m - 1) + MonthDays[m]

DaysPerYear == DaysBeforeMonth(12)

\* the local-time fields a Date object works on
LocalOf(t) == t + tz

UtcOf(l) == l - tz

GetFullYear(l) == (l \div MinutesPerDay) \div DaysPerYear

DayOfYear(l) == (l \div MinutesPerDay) % DaysPerYear

GetMonth(l) == CHOOSE m \in 0..11 : /\ DaysBeforeMonth(m) <= DayOfYear(l)
                                    /\ DayOfYear(l) < DaysBeforeMonth(m + 1)

GetDate(l) == DayOfYear(l) - DaysBeforeMonth(GetMonth(l)) + 1

TimeOfDay(l) == l % MinutesPerDay

\* the local time with the given fields; a month of 12 and a day past the end of the
\* month roll over, as MakeDay does
MakeLocal(year, month, date, timeOfDay) ==
    ((year + month \div 12) * DaysPerYear + DaysBeforeMonth(month % 12) + (date - 1))
        * MinutesPerDay + timeOfDay

\* date.setDate(date.getDate() + n), as an instant
SetDatePlus(t, n) ==
    LET l == LocalOf(t)
    IN  UtcOf(MakeLocal(GetFullYear(l), GetMonth(l), GetDate(l) + n, TimeOfDay(l)))

\* date.setMonth(date.getMonth() + 1), as an instant
SetMonthPlusOne(t) ==
    LET l == LocalOf(t)
    IN  UtcOf(MakeLocal(GetFullYear(l), GetMonth(l) + 1, GetDate(l), TimeOfDay(l)))

\* new Date(string): a datetime-local value ("2025-01-31T09:00") is local time, an ISO
\* string ending in Z is UTC
ParseDate(str) == IF str.fmt = "local" THEN UtcOf(str.v) ELSE str.v

\* date.toISOString()
ToISOString(t) == [fmt |-> "iso", v |-> t]

(***************************************************************************)
(* WebhookManager (Dash): the schedule checker                             *)
(***************************************************************************)
MaxUserOps == 1     \* operations of the user in one behaviour

MaxTicks == 2       \* runs of the setInterval callback in one behaviour

TickIntervalMs == 60000

MsPerMinute == 60 * 1000

\* the clock advances by at least the interval between two ticks; a suspended tab
\* makes a tick late by any amount
TickGaps == {TickIntervalMs \div MsPerMinute, 2 * MinutesPerDay + 5}

WebhookIds == {"w1", "w2"}

ScheduleIds == <<"s1", "s2">>

Repeats == {"once", "daily", "weekly", "monthly", "hourly"}

\* 2025-01-31T09:00 local time
BaseLocal == 30 * MinutesPerDay + 9 * 60

\* the due times stored schedules start with (values of the datetime-local input)
DueTimes == {[fmt |-> "local", v |-> BaseLocal]}

TimeZones == {-300}

ActivityCap == 100

\* this.schedules.find(s => s.id === id) as an index, 0 when absent
IndexOf(list, id) ==
    IF \E i \in DOMAIN list : list[i].id = id
    THEN CHOOSE i \in DOMAIN list : list[i].id = id
    ELSE 0

\* this.schedules.filter(s => s.id !== id)
WithoutId(list, id) == SelectSeq(list, LAMBDA s : s.id # id)

\* The activity list is kept as the number of entries of each type, which is all that
\* updateStats reads from it.
ActivityTypes == {"message_sent", "message_failed", "webhook_deleted"}

NoActivities == [t \in ActivityTypes |-> 0]

\* this.activities.filter(a => a.type === type).length
CountType(acts, type) == acts[type]

\* this.activities.length
ActivityTotal(acts) == CountType(acts, "message_sent") + CountType(acts, "message_failed")
                           + CountType(acts, "webhook_deleted")

\* addActivity: push, then keep only the last 100.  Which entry the slice drops depends
\* on the order of the list, so the actions stop adding once the list is full.
ListHasRoom == ActivityTotal(activities) < ActivityCap

AddActivity(acts, type) == [acts EXCEPT ![type] = @ + 1]

\* calculateNextSchedule(schedule): the next Date, or null
CalculateNextSchedule(schedule) ==
    LET current == ParseDate(schedule.scheduleTime) IN
    CASE schedule.repeat = "daily"   -> [null |-> FALSE, t |-> SetDatePlus(current, 1)]
      [] schedule.repeat = "weekly"  -> [null |-> FALSE, t |-> SetDatePlus(current, 7)]
      [] schedule.repeat = "monthly" -> [null |-> FALSE, t |-> SetMonthPlusOne(current)]
      [] OTHER                       -> [null |-> TRUE, t |-> 0]

\* the test of the schedule checker: schedule.active && new Date(schedule.scheduleTime) <= now
IsDue(schedule, now) == schedule.active /\ ParseDate(schedule.scheduleTime) <= now

\* a plausible slip: the lookup of the webhook is not checked
WebhookFoundUnchecked(webhookId) == TRUE

\* executeSchedule: this.webhooks.find(w => w.id === schedule.webhookId) is not undefined
WebhookFound(webhookId) == webhookId \in webhooks

\* a plausible slip: the loop awaits each execution, so it stops at the first schedule
\* whose fetch is still pending
HandedAwaiting(list, now) ==
    {list[i].id : i \in {j \in DOMAIN list :
        /\ IsDue(list[j], now)
        /\ \A k \in 1..(j - 1) : ~(IsDue(list[k], now) /\ WebhookFound(list[k].webhookId))}}

\* the schedules the forEach of the checker hands to executeSchedule
Handed(list, now) == {list[i].id : i \in {j \in DOMAIN list : IsDue(list[j], now)}}

\* the lists the constructor may load from storage: s1 alone, or s1 followed by s2;
\* every schedule active, s1 on webhook w1 with any repeat value
StoredSchedules ==
    LET first  == [id : {ScheduleIds[1]}, webhookId : {"w1"}, scheduleTime : DueTimes,
                   repeat : Repeats, active : {TRUE}]
        second == [id : {ScheduleIds[2]}, webhookId : WebhookIds, scheduleTime : DueTimes,
                   repeat : {"once", "daily"}, active : {TRUE}]
    IN  {<<a>> : a \in first} \cup {<<a, b>> : a \in first, b \in second}

\* the state after the constructor, with list as the stored schedules
Constructed(list) ==
    /\ tz \in TimeZones
    /\ webhooks = WebhookIds
    /\ schedules = list
    /\ activities = NoActivities
    /\ pending = {}
    /\ dashNow = UtcOf(BaseLocal)
    /\ ticks = 0
    /\ userOps = 0

DashStart == \E list \in StoredSchedules : Constructed(list)

\* the state of the Dash manager while another component is examined
DashIdle == Constructed(<<>>)

\* the fetches executeSchedule issues for the schedules handed to it at the tick numbered
\* tick: the webhook is looked up and, when it is missing, executeSchedule returns at once
Issued(list, handed, tick) ==
    {[sid |-> list[i].id, wid |-> list[i].webhookId, at |-> tick]
       : i \in {j \in DOMAIN list : list[j].id \in handed /\ WebhookFound(list[j].webhookId)}}

\* the setInterval callback of startScheduleChecker, gap minutes after the previous one:
\* every due schedule is handed to executeSchedule, which runs up to its await
Tick(gap) ==
    /\ ticks < MaxTicks
    /\ ticks' = ticks + 1
    /\ dashNow' = dashNow + gap
    /\ pending' = pending \cup Issued(schedules, Handed(schedules, dashNow'), ticks')
    /\ UNCHANGED <<webhooks, schedules, activities, tz, userOps, notDash>>

\* the list after the success branch of executeSchedule for the schedule at index i
AfterSuccess(list, i) ==
    IF list[i].repeat # "once"
    THEN LET nextTime == CalculateNextSchedule(list[i])
         IN  IF nextTime.null
             THEN list
             ELSE [list EXCEPT ![i].scheduleTime = ToISOString(nextTime.t)]
    ELSE WithoutId(list, list[i].id)

\* the list after the catch branch of executeSchedule
AfterFailure(list, i) == list

\* the continuation of executeSchedule once fetch settles: "ok" is a 2xx response,
\* "http" a response that is not ok, "reject" a rejected fetch.  A schedule object that
\* deleteSchedule took out of the list is still updated, which nothing can observe.
FetchSettles(p, outcome) ==
    LET i == IndexOf(schedules, p.sid) IN
    /\ p \in pending
    /\ ListHasRoom
    /\ pending' = pending \ {p}
    /\ activities' = AddActivity(activities,
                                 IF outcome = "ok" THEN "message_sent" ELSE "message_failed")
    /\ schedules' = IF i = 0 THEN schedules
                    ELSE IF outcome = "ok" THEN AfterSuccess(schedules, i)
                    ELSE AfterFailure(schedules, i)
    /\ UNCHANGED <<webhooks, dashNow, ticks, tz, userOps, notDash>>

\* deleteWebhook(webhookId), confirmed by the user; the schedules of the webhook stay
DeleteWebhook(w) ==
    /\ userOps < MaxUserOps
    /\ userOps' = userOps + 1
    /\ w \in webhooks
    /\ ListHasRoom
    /\ webhooks' = webhooks \ {w}
    /\ activities' = AddActivity(activities, "webhook_deleted")
    /\ UNCHANGED <<schedules, pending, dashNow, ticks, tz, notDash>>

\* toggleSchedule(scheduleId)
ToggleSchedule(id) ==
    /\ userOps < MaxUserOps
    /\ userOps' = userOps + 1
    /\ IndexOf(schedules, id) # 0
    /\ schedules' = [schedules EXCEPT ![IndexOf(schedules, id)].active = ~@]
    /\ UNCHANGED <<webhooks, activities, pending, dashNow, ticks, tz, notDash>>

\* deleteSchedule(scheduleId), confirmed by the user
DeleteSchedule(id) ==
    /\ userOps < MaxUserOps
    /\ userOps' = userOps + 1
    /\ IndexOf(schedules, id) # 0
    /\ schedules' = WithoutId(schedules, id)
    /\ UNCHANGED <<webhooks, activities, pending, dashNow, ticks, tz, notDash>>

(***************************************************************************)
(* AnalyticsService                                                        *)
(* The stored mirror is kept as the number of entries that were there at   *)
(* the start (all older than any tracked event) and the list of the        *)
(* tracked events that follow them.                                        *)
(***************************************************************************)
MaxEvents == 3      \* track calls in one behaviour

\* [...existing, ...events].slice(-1000)
RetentionCap == 1000

\* the sizes of the mirror found in localStorage at the start
StoredSizes == {0, RetentionCap - 1, RetentionCap}

\* a plausible slip: no event is flushed at once
IsImportantNever(event) == FALSE

\* ['error', 'pageview', 'webhook_created'].includes(event)
IsImportant(event) == event \in {"error", "pageview", "webhook_created"}

EventNames == {"log", "error"}

\* list.slice(-n) for n > 0
SliceLast(list, n) ==
    IF Len(list) > n THEN SubSeq(list, Len(list) - n + 1, Len(list)) ELSE list

\* the number of entries of a mirror
MirrorSize(m) == m.old + Len(m.recent)

\* a plausible slip: the cap cuts the batch, not the whole list
UpdatedKeepingExisting(existing, events) ==
    [old |-> existing.old,
     recent |-> IF existing.old >= RetentionCap THEN existing.recent
                ELSE SliceLast(existing.recent \o events, RetentionCap - existing.old)]

\* [...existing, ...events].slice(-1000)
Updated(existing, events) ==
    LET all == existing.recent \o events IN
    IF Len(all) >= RetentionCap
    THEN [old |-> 0, recent |-> SliceLast(all, RetentionCap)]
    ELSE [old |-> IF existing.old + Len(all) > RetentionCap
                  THEN RetentionCap - Len(all)
                  ELSE existing.old,
          recent |-> all]

\* a plausible slip: the failed batch is put back behind the live events
RequeuedAtBack(live, events) == live \o events

\* this.queue.unshift(...events)
Requeued(live, events) == events \o live

\* the state after init(): consent granted or not, the mirror as found
AnStart ==
    /\ enabled \in BOOLEAN
    /\ queue = <<>>
    /\ stored \in [old : StoredSizes, recent : {<<>>}]
    /\ flushing = <<>>
    /\ tracked = 0
    /\ delivered = <<>>
    /\ loaded = TRUE
    /\ consent = IF enabled THEN "granted" ELSE "denied"

\* the state after the constructor, before init(): enabled is true whatever the stored
\* consent says
AnConstructed ==
    /\ enabled = TRUE
    /\ queue = <<>>
    /\ stored \in [old : StoredSizes, recent : {<<>>}]
    /\ flushing = <<>>
    /\ tracked = 0
    /\ delivered = <<>>
    /\ loaded = FALSE
    /\ consent \in {"granted", "denied"}

\* init(): the stored consent is loaded into enabled and the flush timer is started
AnalyticsInit ==
    /\ ~loaded
    /\ loaded' = TRUE
    /\ enabled' = (consent = "granted")
    /\ UNCHANGED <<queue, stored, flushing, tracked, delivered, consent, notConsent>>

\* the state of the service while another component is examined
AnIdle == AnStart /\ enabled /\ stored.old = 0

\* flush() up to its await: the batch is taken, the queue emptied, and
\* getStoredEvents has read the mirror
FlushTaken(q) == Append(flushing, [events |-> q, existing |-> stored])

\* a plausible slip: track does not look at this.enabled
TrackAlways(flag) == TRUE

\* track: if (!this.enabled) return
TrackAccepts(flag) == flag

\* track(event, properties): the event is pushed; an important event is flushed at once
Track(event) ==
    /\ tracked < MaxEvents
    /\ tracked' = tracked + 1
    /\ IF ~TrackAccepts(enabled)
       THEN UNCHANGED <<queue, flushing>>
       ELSE LET pushed == Append(queue, [id |-> tracked', event |-> event]) IN
            IF IsImportant(event)
            THEN queue' = <<>> /\ flushing' = FlushTaken(pushed)
            ELSE queue' = pushed /\ UNCHANGED flushing
    /\ UNCHANGED <<enabled, stored, delivered, notAn>>

\* the setInterval callback of init(): flush(), which returns at once on an empty queue.
\* A timer callback runs only when no continuation of an earlier flush is waiting.
TimerFlush ==
    /\ loaded
    /\ flushing = <<>>
    /\ queue # <<>>
    /\ queue' = <<>>
    /\ flushing' = FlushTaken(queue)
    /\ UNCHANGED <<enabled, stored, tracked, delivered, notAn>>

\* flush() after its await, localStorage.setItem succeeds
FlushStores ==
    /\ flushing # <<>>
    /\ stored' = Updated(Head(flushing).existing, Head(flushing).events)
    /\ delivered' = delivered \o Head(flushing).events
    /\ flushing' = Tail(flushing)
    /\ UNCHANGED <<enabled, queue, tracked, notAn>>

\* flush() after its await, localStorage.setItem throws: the catch block requeues
FlushFails ==
    /\ flushing # <<>>
    /\ queue' = Requeued(queue, Head(flushing).events)
    /\ flushing' = Tail(flushing)
    /\ UNCHANGED <<enabled, stored, tracked, delivered, notAn>>

\* setConsent(granted)
SetConsent(granted) ==
    /\ enabled # granted
    /\ enabled' = granted
    /\ consent' = IF granted THEN "granted" ELSE "denied"
    /\ UNCHANGED <<queue, stored, flushing, tracked, delivered, loaded, notConsent>>

(***************************************************************************)
(* Stats objects and the stats updaters (updateWebhookStats,               *)
(* updateScheduleStats).  The average is an exact fraction num / den in    *)
(* lowest terms.                                                           *)
(***************************************************************************)
MaxRecords == 4     \* outcomes recorded into one Stats object

\* the response times (ms) of successful sends
Latencies == {100, 200, 300}

RECURSIVE Gcd(_, _)
Gcd(x, y) == IF y = 0 THEN x ELSE Gcd(y, x % y)

\* the fraction num / den in lowest terms, den > 0, num >= 0
Fraction(num, den) ==
    LET g == Gcd(num, den) IN [num |-> num \div g, den |-> den \div g]

\* stats: { totalMessages: 0, successfulMessages: 0, failedMessages: 0,
\*          lastUsed: null, averageResponseTime: 0 }
FreshStats ==
    [totalMessages |-> 0, successfulMessages |-> 0, failedMessages |-> 0,
     averageResponseTime |-> Fraction(0, 1)]

\* a plausible slip: the average moves half way towards each new response time
SmoothedAverage(avg, responseTime, count) ==
    Fraction(avg.num + responseTime * avg.den, 2 * avg.den)

\* avg + (responseTime - avg) / count
IncrementalMean(avg, responseTime, count) ==
    Fraction(avg.num * (count - 1) + responseTime * avg.den, avg.den * count)

\* a plausible slip: a failure is counted as a success too
RecordCountingTwice(st, success, responseTime) ==
    [totalMessages       |-> st.totalMessages + 1,
     successfulMessages  |-> st.successfulMessages + 1,
     failedMessages      |-> st.failedMessages + (IF success THEN 0 ELSE 1),
     averageResponseTime |-> IncrementalMean(st.averageResponseTime, responseTime,
                                             st.totalMessages + 1)]

\* the Stats object after one outcome has been recorded
Record(st, success, responseTime) ==
    [totalMessages       |-> st.totalMessages + 1,
     successfulMessages  |-> st.successfulMessages + (IF success THEN 1 ELSE 0),
     failedMessages      |-> st.failedMessages + (IF success THEN 0 ELSE 1),
     averageResponseTime |-> IncrementalMean(st.averageResponseTime, responseTime,
                                             st.totalMessages + 1)]

StatsStart == stats = FreshStats /\ recorded = <<>>

\* updateWebhookStats(id, { success: true, responseTime })
RecordSuccess(responseTime) ==
    /\ Len(recorded) < MaxRecords
    /\ stats' = Record(stats, TRUE, responseTime)
    /\ recorded' = Append(recorded, [success |-> TRUE, responseTime |-> responseTime])
    /\ UNCHANGED notStats

\* updateWebhookStats(id, { success: false, responseTime: 0 })
RecordFailure ==
    /\ Len(recorded) < MaxRecords
    /\ stats' = Record(stats, FALSE, 0)
    /\ recorded' = Append(recorded, [success |-> FALSE, responseTime |-> 0])
    /\ UNCHANGED notStats

(***************************************************************************)
(* WebhookManagerPro: sends, scheduled tasks and user-initiated writes     *)
(***************************************************************************)
MaxOps == 2         \* testWebhook, sendMessage and handleScheduledTask calls
MaxWrites == 1      \* createWebhook, updateWebhook, deleteWebhook, createSchedule calls

\* generateId(): the ids of the webhooks and schedules created by the nth write
NewWebhookIds == <<"p2", "p3", "p4">>

NewScheduleIds == <<"t2", "t3", "t4">>

\* how sendDiscordWebhook ends: it returns, or throws 'HTTP <status>', the timeout
\* error or the TypeError of fetch
SendOutcomes == {"ok", "http", "timeout", "transport"}

\* the response time of a successful send in these runs
ProLatencies == {100}

NoResult == [kind |-> "none", wid |-> "none", sid |-> "none",
             cause |-> "none", result |-> "none"]

NoWrite == [op |-> "none", saveFailed |-> FALSE, result |-> "none"]

\* one webhook and one schedule for it exist; the schedule is known to the scheduler
\* (the counters totalExecutions, successfulExecutions, failedExecutions of a
\* schedule are kept under the names of the webhook counters)
ProStart ==
    /\ stateWebhooks = [w \in {"p1"} |-> [status |-> "active", stats |-> FreshStats]]
    /\ stateSchedules = [t \in {"t1"} |-> [webhookId |-> "p1", stats |-> FreshStats]]
    /\ schedulerJobs = [t \in {"t1"} |-> "p1"]
    /\ isOnline = TRUE
    /\ storedWebhooks = {"p1"}
    /\ running = {}
    /\ started = 0
    /\ writes = 0
    /\ lastResult = NoResult
    /\ lastWrite = NoWrite

\* updateWebhookStats(id, outcome) / updateScheduleStats(id, outcome): the outcome is
\* recorded into the Stats object of the entity; there is none when the entity is gone
RecordInto(entities, id, success, responseTime) ==
    IF id \in DOMAIN entities
    THEN [entities EXCEPT ![id].stats = Record(@, success, responseTime)]
    ELSE entities

\* a plausible slip: a failure of testWebhook or sendMessage is reported in the result
InteractiveFailureReturned == "returned"

\* the catch blocks of testWebhook and sendMessage end with `throw error`
InteractiveFailure == "thrown"

\* the catch block of an operation: testWebhook and sendMessage record
\* the failure into the webhook and rethrow, handleScheduledTask records it into the
\* schedule and returns
Caught(kind, wid, sid, cause) ==
    /\ IF kind = "task"
       THEN /\ stateSchedules' = RecordInto(stateSchedules, sid, FALSE, 0)
            /\ UNCHANGED stateWebhooks
       ELSE /\ stateWebhooks' = RecordInto(stateWebhooks, wid, FALSE, 0)
            /\ UNCHANGED stateSchedules
    /\ lastResult' = [kind |-> kind, wid |-> wid, sid |-> sid, cause |-> cause,
                      result |-> IF kind = "task" THEN "swallowed" ELSE InteractiveFailure]

\* the operation reaches `await this.sendDiscordWebhook(...)`
Suspended(n, kind, wid, sid) ==
    /\ running' = running \cup {[n |-> n, kind |-> kind, wid |-> wid, sid |-> sid]}
    /\ UNCHANGED <<stateWebhooks, stateSchedules, lastResult>>

\* testWebhook(webhookId) up to its first await
TestWebhook(w) ==
    /\ started < MaxOps
    /\ started' = started + 1
    /\ IF w \notin DOMAIN stateWebhooks
       THEN Caught("test", w, "none", "not_found") /\ UNCHANGED running
       ELSE IF ~isOnline
       THEN Caught("test", w, "none", "offline") /\ UNCHANGED running
       ELSE Suspended(started', "test", w, "none")
    /\ UNCHANGED <<schedulerJobs, isOnline, storedWebhooks, writes, lastWrite, notPro>>

\* sendMessage(webhookId, messageData) up to its first await
SendMessage(w) ==
    /\ started < MaxOps
    /\ started' = started + 1
    /\ IF w \notin DOMAIN stateWebhooks
       THEN Caught("send", w, "none", "not_found") /\ UNCHANGED running
       ELSE IF stateWebhooks[w].status # "active"
       THEN Caught("send", w, "none", "inactive") /\ UNCHANGED running
       ELSE IF ~isOnline
       THEN Caught("send", w, "none", "offline") /\ UNCHANGED running
       ELSE Suspended(started', "send", w, "none")
    /\ UNCHANGED <<schedulerJobs, isOnline, storedWebhooks, writes, lastWrite, notPro>>

\* a plausible slip: the status of the webhook is not looked at
IsActiveUnchecked(w) == TRUE

\* webhook.status === 'active'
IsActive(w) == stateWebhooks[w].status = "active"

\* handleScheduledTask(schedule), called by the scheduler service, up to its first await
HandleScheduledTask(t) ==
    /\ started < MaxOps
    /\ started' = started + 1
    /\ t \in DOMAIN schedulerJobs
    /\ LET w == schedulerJobs[t] IN
       IF w \notin DOMAIN stateWebhooks
       THEN Caught("task", w, t, "not_found") /\ UNCHANGED running
       ELSE IF ~IsActive(w)
       THEN Caught("task", w, t, "inactive") /\ UNCHANGED running
       ELSE Suspended(started', "task", w, t)
    /\ UNCHANGED <<schedulerJobs, isOnline, storedWebhooks, writes, lastWrite, notPro>>

\* an operation goes on after sendDiscordWebhook has returned or thrown
SendSettles(op, outcome, responseTime) ==
    /\ op \in running
    /\ running' = running \ {op}
    /\ IF outcome # "ok"
       THEN Caught(op.kind, op.wid, op.sid, outcome)
       ELSE /\ stateWebhooks' = RecordInto(stateWebhooks, op.wid, TRUE, responseTime)
            /\ stateSchedules' = IF op.kind = "task"
                                 THEN RecordInto(stateSchedules, op.sid, TRUE, responseTime)
                                 ELSE stateSchedules
            /\ lastResult' = [kind |-> op.kind, wid |-> op.wid, sid |-> op.sid,
                              cause |-> "ok",
                              result |-> IF op.kind = "task" THEN "done" ELSE "returned"]
    /\ UNCHANGED <<schedulerJobs, isOnline, storedWebhooks, started, writes, lastWrite, notPro>>

\* handleOnlineStatusChange(online)
OnlineStatusChange(online) ==
    /\ isOnline # online
    /\ isOnline' = online
    /\ UNCHANGED <<stateWebhooks, stateSchedules, schedulerJobs, storedWebhooks, running,
                   started, writes, lastResult, lastWrite, notPro>>

\* the webhook ids a caller may pass: those in the state, those of suspended
\* operations and of scheduler jobs (possibly deleted meanwhile)
KnownWebhookIds ==
    (DOMAIN stateWebhooks) \cup {op.wid : op \in running}
        \cup {schedulerJobs[t] : t \in DOMAIN schedulerJobs}

\* saveApplicationState(): StorageService.set answers false when localStorage.setItem
\* throws; Promise.all resolves all the same and the answer is not looked at
SaveApplicationState(webhooksNow, saveOk) ==
    storedWebhooks' = IF saveOk THEN DOMAIN webhooksNow ELSE storedWebhooks

\* the map without the key
Without(entities, id) == [x \in (DOMAIN entities) \ {id} |-> entities[x]]

\* the end of a create, update or delete call
WriteEnds(op, saveFailed, result) ==
    /\ writes' = writes + 1
    /\ lastWrite' = [op |-> op, saveFailed |-> saveFailed, result |-> result]

\* createWebhook(webhookData): valid says whether validateWebhook accepts the data,
\* probeOk whether testWebhookConnection (made only when online) returns
CreateWebhook(valid, probeOk, saveOk) ==
    /\ writes < MaxWrites
    /\ IF ~valid \/ (isOnline /\ ~probeOk)
       THEN /\ WriteEnds("createWebhook", FALSE, "thrown")
            /\ UNCHANGED <<stateWebhooks, storedWebhooks>>
       ELSE /\ stateWebhooks' = MapSet(stateWebhooks, NewWebhookIds[writes + 1],
                                       [status |-> "active", stats |-> FreshStats])
            /\ SaveApplicationState(stateWebhooks', saveOk)
            /\ WriteEnds("createWebhook", ~saveOk, "returned")
    /\ UNCHANGED <<stateSchedules, schedulerJobs, isOnline, running, started, lastResult,
                   notPro>>

\* updateWebhook(webhookId, { status }): the url is not changed
UpdateWebhook(w, status, saveOk) ==
    /\ writes < MaxWrites
    /\ IF w \notin DOMAIN stateWebhooks
       THEN /\ WriteEnds("updateWebhook", FALSE, "thrown")
            /\ UNCHANGED <<stateWebhooks, storedWebhooks>>
       ELSE /\ stateWebhooks' = [stateWebhooks EXCEPT ![w].status = status]
            /\ SaveApplicationState(stateWebhooks', saveOk)
            /\ WriteEnds("updateWebhook", ~saveOk, "returned")
    /\ UNCHANGED <<stateSchedules, schedulerJobs, isOnline, running, started, lastResult,
                   notPro>>

\* deleteWebhook(webhookId): the webhook and its schedules leave the state; the
\* scheduler service is not told
ProDeleteWebhook(w, saveOk) ==
    /\ writes < MaxWrites
    /\ IF w \notin DOMAIN stateWebhooks
       THEN /\ WriteEnds("deleteWebhook", FALSE, "thrown")
            /\ UNCHANGED <<stateWebhooks, stateSchedules, storedWebhooks>>
       ELSE /\ stateWebhooks' = Without(stateWebhooks, w)
            /\ stateSchedules' = [t \in {x \in DOMAIN stateSchedules :
                                            stateSchedules[x].webhookId # w}
                                     |-> stateSchedules[t]]
            /\ SaveApplicationState(stateWebhooks', saveOk)
            /\ WriteEnds("deleteWebhook", ~saveOk, "returned")
    /\ UNCHANGED <<schedulerJobs, isOnline, running, started, lastResult, notPro>>

\* createSchedule(scheduleData) for the webhook w: valid says whether validateSchedule
\* accepts the data
CreateSchedule(w, valid, saveOk) ==
    /\ writes < MaxWrites
    /\ IF ~valid
       THEN /\ WriteEnds("createSchedule", FALSE, "thrown")
            /\ UNCHANGED <<stateSchedules, schedulerJobs, storedWebhooks>>
       ELSE /\ stateSchedules' = MapSet(stateSchedules, NewScheduleIds[writes + 1],
                                        [webhookId |-> w, stats |-> FreshStats])
            /\ schedulerJobs' = MapSet(schedulerJobs, NewScheduleIds[writes + 1], w)
            /\ SaveApplicationState(stateWebhooks, saveOk)
            /\ WriteEnds("createSchedule", ~saveOk, "returned")
    /\ UNCHANGED <<stateWebhooks, isOnline, running, started, lastResult, notPro>>

(***************************************************************************)
(* WebhookManagerPro: the periodic health check                            *)
(***************************************************************************)
MaxRuns == 1        \* runs of checkWebhookHealth

\* the webhooks found in the store at start-up
StoredWebhookIds == {"p1", "p2", "p3"}

ProbeOutcomes == {"ok", "failed"}

\* no run of checkWebhookHealth has been made
NoRun == [phase |-> "idle", online |-> FALSE, idx |-> 0, visits |-> <<>>, runs |-> 0]

\* this.state.webhooks as an array: createWebhook pushes, so the order is that of creation
WebhookArray ==
    SelectSeq(<<"p1">> \o NewWebhookIds, LAMBDA w : w \in DOMAIN stateWebhooks)

\* several webhooks of either status are loaded, the connection is up or down
HealthStart ==
    /\ stateWebhooks \in [StoredWebhookIds -> [status : {"active", "inactive"},
                                               stats : {FreshStats}]]
    /\ stateSchedules = EmptyMap
    /\ schedulerJobs = EmptyMap
    /\ isOnline \in BOOLEAN
    /\ storedWebhooks = StoredWebhookIds
    /\ running = {}
    /\ started = 0
    /\ writes = 0
    /\ lastResult = NoResult
    /\ lastWrite = NoWrite
    /\ health = NoRun

\* a plausible slip: the catch block around the probe is missing
ProbeFailureThrown == "thrown"

\* `try { await this.testWebhookConnection(webhook) } catch (error) { this.log(...) }`
ProbeFailure == "caught"

\* the loop of checkWebhookHealth from the element at position i on, up to its next
\* await: elements that are not active are passed over, the first active one is probed
RECURSIVE Visit(_, _)
Visit(i, visits) ==
    IF i > Len(WebhookArray)
    THEN [phase |-> "returned", idx |-> i, visits |-> visits]
    ELSE LET w == WebhookArray[i] IN
         IF stateWebhooks[w].status = "active"
         THEN [phase |-> "probing", idx |-> i,
               visits |-> Append(visits, [wid |-> w, probed |-> TRUE, outcome |-> "pending"])]
         ELSE Visit(i + 1, Append(visits, [wid |-> w, probed |-> FALSE, outcome |-> "none"]))

\* checkWebhookHealth(), called by the 5-minute timer or by refreshData, up to its
\* first await
CheckWebhookHealth ==
    /\ health.phase # "probing"
    /\ health.runs < MaxRuns
    /\ health' = IF ~isOnline
                 THEN [phase |-> "returned", online |-> FALSE, idx |-> 0, visits |-> <<>>,
                       runs |-> health.runs + 1]
                 ELSE LET v == Visit(1, <<>>) IN
                      [phase |-> v.phase, online |-> TRUE, idx |-> v.idx,
                       visits |-> v.visits, runs |-> health.runs + 1]
    /\ UNCHANGED <<proVars, notHealth>>

\* testWebhookConnection returns or throws and the loop goes on
ProbeSettles(outcome) ==
    /\ health.phase = "probing"
    /\ LET done == [health.visits EXCEPT ![Len(health.visits)].outcome = outcome] IN
       health' = IF outcome = "failed" /\ ProbeFailure = "thrown"
                 THEN [health EXCEPT !.phase = "thrown", !.visits = done]
                 ELSE LET v == Visit(health.idx + 1, done) IN
                      [health EXCEPT !.phase = v.phase, !.idx = v.idx, !.visits = v.visits]
    /\ UNCHANGED <<proVars, notHealth>>

\* no run of the health check is under way
HealthIdle == health = NoRun

\* the state of the manager while another component is examined
ProIdle == ProStart /\ HealthIdle

(***************************************************************************)
(* Specifications                                                          *)
(***************************************************************************)
RLInit == RLStart /\ SendStart /\ DashIdle /\ AnIdle /\ StatsStart /\ ProIdle

RLNext == \E identifier \in Identifiers, delta \in 0..MaxDelta : CheckLimit(identifier, delta)

\* the limiter queried between calls of checkLimit that are 1 ms apart
QueryInit == RLInit /\ rlLimit = MaxLimit /\ rlWindow = MaxWindow

QueryNext ==
    \/ \E identifier \in Identifiers : CheckLimit(identifier, 1)
    \/ \E identifier \in Identifiers, limit \in 0..MaxLimit, delta \in QueryDeltas :
          GetRemainingRequests(identifier, limit, delta)

RLIdle == RLStart /\ rlLimit = 0 /\ rlWindow = 1

SendInit == SendStart /\ RLIdle /\ DashIdle /\ AnIdle /\ StatsStart /\ ProIdle

SendNext ==
    \/ \E c \in CallIds : SendBegin(c)
    \/ \E d \in ElapseSteps : Elapse(d)
    \/ \E c \in CallIds : TimerFires(c)
    \/ \E c \in CallIds, status \in Statuses, body \in Bodies : ResponseArrives(c, status, body)
    \/ \E c \in CallIds : BodyRead(c)
    \/ \E c \in CallIds : NetworkFails(c)

DashInit == DashStart /\ RLIdle /\ SendStart /\ AnIdle /\ StatsStart /\ ProIdle

DashNext ==
    \/ \E gap \in TickGaps : Tick(gap)
    \/ \E p \in pending, outcome \in {"ok", "http", "reject"} : FetchSettles(p, outcome)
    \/ \E w \in WebhookIds : DeleteWebhook(w)
    \/ \E id \in Range(ScheduleIds) : ToggleSchedule(id)
    \/ \E id \in Range(ScheduleIds) : DeleteSchedule(id)

AnInit == AnStart /\ RLIdle /\ SendStart /\ DashIdle /\ StatsStart /\ ProIdle

AnNext ==
    \/ \E event \in EventNames : Track(event)
    \/ TimerFlush
    \/ FlushStores
    \/ FlushFails
    \/ \E granted \in BOOLEAN : SetConsent(granted)

SpecAn == AnInit /\ [][AnNext]_vars

\* the service followed from its construction on
ConsentInit == AnConstructed /\ RLIdle /\ SendStart /\ DashIdle /\ StatsStart /\ ProIdle

ConsentNext ==
    \/ AnalyticsInit
    \/ AnNext

SpecConsent == ConsentInit /\ [][ConsentNext]_vars

StatsInit == StatsStart /\ RLIdle /\ SendStart /\ DashIdle /\ AnIdle /\ ProIdle

StatsNext ==
    \/ \E responseTime \in Latencies : RecordSuccess(responseTime)
    \/ RecordFailure

SpecStats == StatsInit /\ [][StatsNext]_vars

ProInit == ProStart /\ HealthIdle /\ RLIdle /\ SendStart /\ DashIdle /\ AnIdle /\ StatsStart

ProNext ==
    \/ \E w \in KnownWebhookIds : TestWebhook(w)
    \/ \E w \in KnownWebhookIds : SendMessage(w)
    \/ \E t \in DOMAIN schedulerJobs : HandleScheduledTask(t)
    \/ \E op \in running, outcome \in SendOutcomes, responseTime \in ProLatencies :
          SendSettles(op, outcome, responseTime)
    \/ \E online \in BOOLEAN : OnlineStatusChange(online)
    \/ \E valid, probeOk, saveOk \in BOOLEAN : CreateWebhook(valid, probeOk, saveOk)
    \/ \E w \in KnownWebhookIds, status \in {"active", "inactive"}, saveOk \in BOOLEAN :
          UpdateWebhook(w, status, saveOk)
    \/ \E w \in KnownWebhookIds, saveOk \in BOOLEAN : ProDeleteWebhook(w, saveOk)
    \/ \E w \in DOMAIN stateWebhooks, valid, saveOk \in BOOLEAN :
          CreateSchedule(w, valid, saveOk)

SpecPro == ProInit /\ [][ProNext]_vars

HealthInit == HealthStart /\ RLIdle /\ SendStart /\ DashIdle /\ AnIdle /\ StatsStart

HealthNext ==
    \/ CheckWebhookHealth
    \/ \E outcome \in ProbeOutcomes : ProbeSettles(outcome)
    \/ \E online \in BOOLEAN : OnlineStatusChange(online)
    \/ \E w \in DOMAIN stateWebhooks, status \in {"active", "inactive"}, saveOk \in BOOLEAN :
          UpdateWebhook(w, status, saveOk)

SpecHealth == HealthInit /\ [][HealthNext]_vars

SpecQuery == QueryInit /\ [][QueryNext]_vars

SpecRL == RLInit /\ [][RLNext]_vars

SpecSend == SendInit /\ [][SendNext]_vars

SpecDash == DashInit /\ [][DashNext]_vars

(***************************************************************************)
(* C1 -- sliding window of RateLimiter.checkLimit                          *)
(***************************************************************************)
\* the allowed calls of `identifier` among the first `upto` calls whose time lies in (lo, hi]
AllowedInSpan(identifier, lo, hi, upto) ==
    {j \in 1..upto : /\ rlLog[j].id = identifier
                     /\ rlLog[j].ok
                     /\ rlLog[j].t > lo
                     /\ rlLog[j].t <= hi}

\* how often the timestamp t is stored in a list
Occurrences(list, t) == Cardinality({i \in DOMAIN list : list[i] = t})

\* C1: with a fixed limit L and window W and calls at non-decreasing times,
\* (a) a call is allowed exactly when fewer than L earlier allowed calls of its
\*     identifier lie within the W ms before it, so that
\* (b) no span of W ms holds more than L allowed calls;
\* (c) a rejected call records no timestamp;
\* (d) a call made W ms or more after the oldest still-stored allowed call is allowed.
ThmC1_SlidingWindow ==
    /\ \A k \in 1..Len(rlLog) :
          LET e == rlLog[k] IN
          /\ e.ok <=> Cardinality(AllowedInSpan(e.id, e.t - rlWindow, e.t, k - 1)) < rlLimit
          /\ e.ok => Cardinality(AllowedInSpan(e.id, e.t - rlWindow, e.t, Len(rlLog))) <= rlLimit
    /\ rlLog # <<>> =>
          LET e      == rlLog[Len(rlLog)]
              before == StoredRequests(rlBefore, e.id)
          IN  /\ ~e.ok => Occurrences(requests[e.id], e.t) = Occurrences(before, e.t)
              /\ ~e.ok => Len(requests[e.id]) <= Len(before)
              /\ (before # <<>> /\ e.t - before[1] >= rlWindow) => e.ok

\* a full window, a rejected call, and then a call allowed again once the oldest
\* stored call is W ms old
WitC1_RejectedThenAllowedAgain ==
    /\ rlLog # <<>>
    /\ rlLimit >= 1
    /\ LET e      == rlLog[Len(rlLog)]
           before == StoredRequests(rlBefore, e.id)
       IN  /\ e.ok
           /\ Len(before) = rlLimit
           /\ e.t - before[1] >= rlWindow
           /\ \E j \in 1..(Len(rlLog) - 1) : rlLog[j].id = e.id /\ ~rlLog[j].ok

(***************************************************************************)
(* C2 .. C8 -- the schedule checker of WebhookManager (Dash)               *)
(***************************************************************************)

\* the step is a run of the setInterval callback
IsTickStep == ticks' = ticks + 1

\* the executions whose fetch settles in the step
Settled == pending \ pending'

\* the step is the catch branch of an execution
IsFailureStep ==
    CountType(activities', "message_failed") = CountType(activities, "message_failed") + 1

\* the schedule is gone from the list or paused
IsTerminal(list, id) == IndexOf(list, id) = 0 \/ ~list[IndexOf(list, id)].active

\* the schedule is in the list with the due time its recurrence rule gives after old
HasAdvanced(list, old) ==
    /\ IndexOf(list, old.id) # 0
    /\ ~CalculateNextSchedule(old).null
    /\ ParseDate(list[IndexOf(list, old.id)].scheduleTime) = CalculateNextSchedule(old).t

\* the active schedules of the list that are due at now and whose webhook is missing
DueOrphans(list, now) ==
    {i \in DOMAIN list : IsDue(list[i], now) /\ ~WebhookFound(list[i].webhookId)}

\* C2: in every reachable state each schedule has at most one outbound dispatch in
\* flight; a tick that fires while the previous dispatch of a schedule has not
\* completed does not dispatch it a second time.
CexC2_AtMostOneInFlight ==
    \A i \in DOMAIN ScheduleIds :
        Cardinality({p \in pending : p.sid = ScheduleIds[i]}) <= 1

\* C3: when the execution of a schedule with recurrence 'once' completes, with
\* success or with failure, the schedule is deactivated or removed, so that no later
\* tick dispatches it again.
CexC3_OnceIsTerminalAfterExecution ==
    [][\A p \in Settled :
          LET i == IndexOf(schedules, p.sid) IN
          (i # 0 /\ schedules[i].repeat = "once") => IsTerminal(schedules', p.sid)]_vars

\* C4: when a daily (weekly) schedule with due time T executes, its new due time is
\* T + 1 day (T + 7 days), whatever the moment of the tick.
CexC4_AdvanceFromPreviousDueTime ==
    [][\A p \in Settled :
          LET i == IndexOf(schedules, p.sid) IN
          (i # 0 /\ schedules[i].repeat \in {"daily", "weekly"}) =>
              LET k    == IndexOf(schedules', p.sid)
                  days == IF schedules[i].repeat = "daily" THEN 1 ELSE 7
              IN  /\ k # 0
                  /\ ParseDate(schedules'[k].scheduleTime)
                        = ParseDate(schedules[i].scheduleTime) + days * MinutesPerDay]_vars

\* C5: a failed dispatch of a daily, weekly or monthly schedule leaves the schedule
\* active, advances its due time by one recurrence period and adds one to the count
\* of failures.
CexC5_FailureStillAdvances ==
    [][\A p \in Settled :
          LET i == IndexOf(schedules, p.sid) IN
          (IsFailureStep /\ i # 0 /\ schedules[i].active
              /\ schedules[i].repeat \in {"daily", "weekly", "monthly"}) =>
                 /\ HasAdvanced(schedules', schedules[i])
                 /\ schedules'[IndexOf(schedules', p.sid)].active]_vars

\* C6: once a webhook has been deleted, no tick issues an outbound call for a
\* schedule that references it, however deleteWebhook interleaves with the ticks.
ThmC6_NoCallForDeletedWebhook ==
    [][\A p \in pending' \ pending : p.wid \notin (WebhookIds \ webhooks)]_vars

\* C6 happens: a webhook was deleted and then a tick ran; it issued the call of the
\* other schedule and none for the due schedule of the deleted webhook.
WitC6_TickSkipsOrphan ==
    /\ activities = [NoActivities EXCEPT !["webhook_deleted"] = 1]
    /\ \E i, j \in DOMAIN schedules :
          /\ i \in DueOrphans(schedules, dashNow)
          /\ ~\E p \in pending : p.sid = schedules[i].id
          /\ [sid |-> schedules[j].id, wid |-> schedules[j].webhookId, at |-> ticks] \in pending

\* C7: a tick that meets a due active schedule whose webhook is missing records a
\* failure for it and still handles its recurrence: a 'once' schedule becomes
\* terminal, a recurring one gets its next due time.
CexC7_OrphanBookkeeping ==
    [][IsTickStep =>
          \A i \in DueOrphans(schedules, dashNow') :
              /\ CountType(activities', "message_failed")
                    > CountType(activities, "message_failed")
              /\ IF schedules[i].repeat = "once"
                 THEN IsTerminal(schedules', schedules[i].id)
                 ELSE HasAdvanced(schedules', schedules[i])]_vars

\* C8: every schedule that is due at a tick is dispatched in that tick, whether or
\* not the dispatch of another schedule is still pending, has failed or has been
\* rejected; nothing an execution raises stops the tick.
ThmC8_EveryDueScheduleDispatched ==
    [][IsTickStep =>
          \A i \in DOMAIN schedules :
              (IsDue(schedules[i], dashNow') /\ WebhookFound(schedules[i].webhookId)) =>
                  [sid |-> schedules[i].id, wid |-> schedules[i].webhookId, at |-> ticks']
                      \in pending' \ pending]_vars

\* C8 happens: the latest tick dispatched both schedules although a dispatch of an
\* earlier tick is still pending and another one has failed.
WitC8_DispatchedDespiteFailureAndHang ==
    /\ CountType(activities, "message_failed") > 0
    /\ \E p \in pending : p.at < ticks
    /\ \A i \in DOMAIN ScheduleIds : \E p \in pending : p.sid = ScheduleIds[i] /\ p.at = ticks

(***************************************************************************)
(* C9 -- sendDiscordWebhook: timeout against transport failure             *)
(***************************************************************************)
\* how a caller reads the error thrown by sendDiscordWebhook
IsTimeoutFailure(call) == call.outcome = "throw" /\ call.error = TimeoutError

IsTransportFailure(call) == call.outcome = "throw" /\ call.error.name = "TypeError"

\* C9: a call still waiting for its response never outlives the 10 000 ms deadline;
\* when the deadline elapses first the call ends with the timeout error, when the
\* network fails it ends with the transport error, and neither is reported as the other.
ThmC9_TimeoutClassification ==
    \A c \in CallIds :
        LET call == calls[c] IN
        /\ call.pc = "fetching" => call.timer /\ sendClock <= call.deadline
        /\ call.cause = "deadline" => call.pc = "done" /\ IsTimeoutFailure(call)
        /\ (call.pc = "done" /\ call.cause \in {"network", "body-network"})
              => IsTransportFailure(call)
        /\ IsTimeoutFailure(call) => call.cause = "deadline"
        /\ IsTransportFailure(call) => call.cause \in {"network", "body-network"}
        /\ ~(IsTimeoutFailure(call) /\ IsTransportFailure(call))

\* one call ran into its deadline and another into a network failure
WitC9_TimeoutAndTransport ==
    \E c1, c2 \in CallIds :
        /\ calls[c1].pc = "done" /\ calls[c1].cause = "deadline"
        /\ calls[c2].pc = "done" /\ calls[c2].cause = "network"
        /\ sendClock >= TimeoutMs

(***************************************************************************)
(* C10 -- sendDiscordWebhook: classification by status                     *)
(***************************************************************************)
\* C10: a call whose response arrived before the deadline succeeds if and only if the
\* status is 2xx, whatever the body; a non-2xx response fails with its status code.
CexC10_StatusDecidesOutcome ==
    \A c \in CallIds :
        LET call == calls[c] IN
        (call.pc = "done" /\ call.cause = "response") =>
            /\ call.outcome = "return" <=> ResponseOk(call.status)
            /\ ~ResponseOk(call.status) => call.error.status = call.status

(***************************************************************************)
(* C20 -- RateLimiter.getRemainingRequests                                 *)
(***************************************************************************)

\* the number of recorded calls of the identifier within the last 60 000 ms before now
RecordedWithinDefaultWindow(reqs, identifier, now) ==
    Cardinality({i \in DOMAIN StoredRequests(reqs, identifier) :
                    now - StoredRequests(reqs, identifier)[i] < DefaultWindowMs})

\* the step is a call of getRemainingRequests
IsQueryStep == Len(rlQueries') = Len(rlQueries) + 1

\* C20: getRemainingRequests(identifier, limit) returns max(0, limit - number of
\* recorded calls of the identifier within the last 60 000 ms) and leaves the state
\* of the limiter as it was, so that a later checkLimit answers as if the call had
\* not been made.
ThmC20_RemainingRequests ==
    [][IsQueryStep =>
          LET q     == rlQueries'[Len(rlQueries')]
              count == RecordedWithinDefaultWindow(requests, q.id, q.t)
          IN  /\ q.value = IF q.limit - count > 0 THEN q.limit - count ELSE 0
              /\ requests' = requests
              /\ \A identifier \in Identifiers, now \in rlNow'..(rlNow' + MaxDelta) :
                    CheckLimitResult(requests', identifier, rlLimit, rlWindow, now)
                        = CheckLimitResult(requests, identifier, rlLimit, rlWindow, now)]_vars

\* C20 happens: a query counted a recorded call and left out a stored timestamp that
\* is 60 000 ms old.
WitC20_CountedAndExpired ==
    \E k \in DOMAIN rlQueries :
        LET q      == rlQueries[k]
            kept == StoredRequests(requests, q.id)
        IN  /\ rlNow = q.t
            /\ 0 < q.value /\ q.value < q.limit
            /\ \E i \in DOMAIN kept : kept[i] <= q.t - DefaultWindowMs

(***************************************************************************)
(* C14 .. C16 -- AnalyticsService                                          *)
(***************************************************************************)

\* the step is the catch block of a flush
IsFlushFailure == Len(flushing') < Len(flushing) /\ delivered' = delivered

\* the step is a call of track
IsTrackStep == tracked' = tracked + 1

\* no event occurs twice in the list
NoDuplicates(list) == \A i, j \in DOMAIN list : list[i].id = list[j].id => i = j

\* C14: when a flush fails, the events of its batch are put back at the front of
\* the live buffer in their original order, ahead of every event tracked after the
\* batch was taken; none is dropped or duplicated, and the mirror is not written.
ThmC14_FailedBatchRequeuedInFront ==
    [][IsFlushFailure =>
          LET batch == Head(flushing).events IN
          /\ queue' = batch \o queue
          /\ NoDuplicates(queue')
          /\ \A i \in DOMAIN batch, j \in DOMAIN queue :
                queue[j].id > batch[Len(batch)].id => queue'[i] = batch[i]
          /\ stored' = stored]_vars

\* C14 happens: a failed batch (its important event was flushed at once) is back in
\* the buffer in front of an event tracked after it.
WitC14_RequeuedAheadOfLaterEvent ==
    /\ flushing = <<>>
    /\ Len(queue) >= 2
    /\ IsImportant(queue[1].event)
    /\ queue[2].id > queue[1].id

\* C15: track while analytics is disabled leaves the buffer and the mirror as they
\* are and starts no flush; while enabled it appends exactly one event at the end of
\* the buffer (which an important event hands to flush at once).
ThmC15_TrackRespectsConsent ==
    [][IsTrackStep =>
          IF ~enabled
          THEN queue' = queue /\ stored' = stored /\ flushing' = flushing
          ELSE LET buffer == IF flushing' = flushing
                             THEN queue'
                             ELSE flushing'[Len(flushing')].events
               IN  /\ Len(buffer) = Len(queue) + 1
                   /\ SubSeq(buffer, 1, Len(queue)) = queue
                   /\ buffer[Len(buffer)].id = tracked'
                   /\ stored' = stored]_vars

\* C15 happens: of two track calls one was made while disabled and left no event,
\* the other one put its event into the buffer.
WitC15_DroppedAndBuffered ==
    /\ tracked = 2
    /\ Len(queue) = 1
    /\ flushing = <<>>
    /\ delivered = <<>>

\* C16: the mirror holds at most 1000 events and is the most recent suffix of the
\* delivered events in the order of delivery.
CexC16_MirrorIsSuffixOfDelivered ==
    /\ MirrorSize(stored) <= RetentionCap
    /\ stored.recent = SliceLast(delivered, RetentionCap)

(***************************************************************************)
(* C13 -- rolling average of a Stats object                                *)
(***************************************************************************)
RECURSIVE SumOfTimes(_)
SumOfTimes(list) ==
    IF list = <<>> THEN 0 ELSE Head(list).responseTime + SumOfTimes(Tail(list))

\* C13: after n successful outcomes with response times l1..ln have been recorded
\* into a fresh Stats object, averageResponseTime is the arithmetic mean of l1..ln,
\* after each record.
ThmC13_RollingAverageIsMean ==
    (recorded # <<>> /\ \A k \in DOMAIN recorded : recorded[k].success) =>
        stats.averageResponseTime.num * Len(recorded)
            = SumOfTimes(recorded) * stats.averageResponseTime.den

\* C13 happens: 100, 200 and 300 ms were recorded and the average is 200.
WitC13_MeanOfThree ==
    /\ recorded = <<[success |-> TRUE, responseTime |-> 100],
                    [success |-> TRUE, responseTime |-> 200],
                    [success |-> TRUE, responseTime |-> 300]>>
    /\ stats.averageResponseTime = [num |-> 200, den |-> 1]

(***************************************************************************)
(* C11, C12, C17 .. C19 -- WebhookManagerPro                               *)
(***************************************************************************)

\* the step ends a call of testWebhook, sendMessage or handleScheduledTask
IsOperationEnd ==
    \/ started' = started + 1 /\ running' = running
    \/ started' = started /\ running' # running

\* the step issues the outbound call of a testWebhook call
IsTestSend == \E op \in running' \ running : op.kind = "test"

\* successCount + failureCount = totalCount
IsBalanced(st) == st.successfulMessages + st.failedMessages = st.totalMessages

\* C11: in every reachable state the Stats object of every webhook and of every
\* schedule has successCount + failureCount = totalCount, whatever test sends,
\* message sends and scheduled executions have run and however they interleave.
ThmC11_StatsBalanced ==
    /\ \A w \in DOMAIN stateWebhooks : IsBalanced(stateWebhooks[w].stats)
    /\ \A t \in DOMAIN stateSchedules : IsBalanced(stateSchedules[t].stats)

\* C11 happens: a webhook has recorded a success and a failure, and a schedule has
\* recorded an execution.
WitC11_SuccessAndFailureRecorded ==
    /\ \E w \in DOMAIN stateWebhooks :
          /\ stateWebhooks[w].stats.successfulMessages > 0
          /\ stateWebhooks[w].stats.failedMessages > 0
    /\ \E t \in DOMAIN stateSchedules : stateSchedules[t].stats.totalMessages > 0

\* C12: one call of testWebhook, sendMessage or handleScheduledTask adds exactly one
\* record to the Stats object of its webhook and, for a scheduled task, exactly one
\* to the Stats object of its schedule, however the call ends.
CexC12_OneRecordPerCall ==
    [][IsOperationEnd =>
          LET r == lastResult' IN
          /\ (r.wid \in DOMAIN stateWebhooks) =>
                stateWebhooks'[r.wid].stats.totalMessages
                    = stateWebhooks[r.wid].stats.totalMessages + 1
          /\ (r.kind = "task" /\ r.sid \in DOMAIN stateSchedules) =>
                stateSchedules'[r.sid].stats.totalMessages
                    = stateSchedules[r.sid].stats.totalMessages + 1]_vars

\* C17: when the save fails during createWebhook, updateWebhook, deleteWebhook or
\* createSchedule, the call is reported to the caller as failed.
CexC17_FailedSaveIsReported == lastWrite.saveFailed => lastWrite.result = "thrown"

\* C18: a testWebhook or sendMessage call that fails (webhook missing or not active,
\* offline, timeout, transport error, non-2xx answer) throws to its caller, returns
\* no success result, and records the failure in the stats of the webhook.
ThmC18_InteractiveFailureRaised ==
    [][IsOperationEnd =>
          LET r == lastResult' IN
          (r.kind \in {"test", "send"} /\ r.cause # "ok") =>
              /\ r.result = "thrown"
              /\ (r.wid \in DOMAIN stateWebhooks) =>
                    /\ stateWebhooks'[r.wid].stats.failedMessages
                          = stateWebhooks[r.wid].stats.failedMessages + 1
                    /\ stateWebhooks'[r.wid].stats.successfulMessages
                          = stateWebhooks[r.wid].stats.successfulMessages]_vars

\* C18 happens: a test send timed out, the call threw and the webhook counts a failure.
WitC18_TimeoutThrownAndRecorded ==
    /\ lastResult.kind = "test"
    /\ lastResult.cause = "timeout"
    /\ lastResult.result = "thrown"
    /\ lastResult.wid \in DOMAIN stateWebhooks
    /\ stateWebhooks[lastResult.wid].stats.failedMessages > 0

\* C19: every test send consults RateLimiter.checkLimit before its outbound call and
\* issues it only when allowed, so that every issued call has left its timestamp in
\* the limiter.
CexC19_TestSendConsultsLimiter ==
    [][IsTestSend => requests' # requests]_vars

(***************************************************************************)
(* C21, C23, C30 -- the schedule checker of WebhookManager (Dash)          *)
(***************************************************************************)

RecognizedRepeats == {"once", "daily", "weekly", "monthly"}

\* C21: a schedule whose repeat value is none of once, daily, weekly, monthly is
\* treated as 'once': after its execution, even a successful one, it is deactivated
\* or removed, so that no later tick dispatches it again.
CexC21_UnrecognizedRepeatIsTerminal ==
    [][\A p \in Settled :
          LET i == IndexOf(schedules, p.sid) IN
          (~IsFailureStep /\ i # 0 /\ schedules[i].repeat \notin RecognizedRepeats) =>
              IsTerminal(schedules', p.sid)]_vars

\* the schedule has an execution whose fetch has not settled
IsInFlight(id) == \E p \in pending : p.sid = id

\* C23: the schedules a tick dispatches are exactly those that are active, not in
\* flight and due at the time of the tick (and whose webhook exists); a paused
\* schedule and a schedule due in the future are not dispatched.
CexC23_TickSelection ==
    [][IsTickStep =>
          {p.sid : p \in pending' \ pending}
              = {schedules[i].id : i \in {j \in DOMAIN schedules :
                                             /\ schedules[j].active
                                             /\ ~IsInFlight(schedules[j].id)
                                             /\ ParseDate(schedules[j].scheduleTime) <= dashNow'
                                             /\ WebhookFound(schedules[j].webhookId)}}]_vars

\* C30: when the execution of a recurring schedule completes with success before the
\* next tick, its new due time is later than the time of the tick that executed it,
\* also when the schedule was overdue by more than one recurrence period.
CexC30_NoCatchUpBurst ==
    [][\A p \in Settled :
          LET i == IndexOf(schedules, p.sid) IN
          (/\ ~IsFailureStep
           /\ i # 0
           /\ p.at = ticks
           /\ schedules[i].repeat \in RecognizedRepeats \ {"once"}) =>
              /\ IndexOf(schedules', p.sid) # 0
              /\ ParseDate(schedules'[IndexOf(schedules', p.sid)].scheduleTime) > dashNow]_vars

(***************************************************************************)
(* C22, C25, C29 -- WebhookManagerPro                                      *)
(***************************************************************************)

\* C22: a scheduled execution whose webhook exists but is not active issues no
\* outbound call and records one failure in the stats of the schedule.
ThmC22_InactiveEndpointFails ==
    [][/\ \A op \in running' \ running :
             op.kind = "task" =>
                 op.wid \in DOMAIN stateWebhooks /\ stateWebhooks[op.wid].status = "active"
       /\ LET r == lastResult' IN
          (/\ started' = started + 1
           /\ running' = running
           /\ r.kind = "task"
           /\ r.wid \in DOMAIN stateWebhooks
           /\ stateWebhooks[r.wid].status # "active"
           /\ r.sid \in DOMAIN stateSchedules) =>
              /\ stateSchedules'[r.sid].stats.failedMessages
                    = stateSchedules[r.sid].stats.failedMessages + 1
              /\ stateSchedules'[r.sid].stats.successfulMessages
                    = stateSchedules[r.sid].stats.successfulMessages]_vars

\* C22 happens: a scheduled task has ended on a webhook that is in the state and not
\* active, no call is in flight, and its schedule has a failure on record.
WitC22_TaskOnInactiveWebhook ==
    /\ lastResult.kind = "task"
    /\ lastResult.cause = "inactive"
    /\ lastResult.wid \in DOMAIN stateWebhooks
    /\ stateWebhooks[lastResult.wid].status # "active"
    /\ lastResult.sid \in DOMAIN stateSchedules
    /\ stateSchedules[lastResult.sid].stats.failedMessages = 1
    /\ running = {}

\* what a step adds to the successes and to the failures on record for an entity
Added(before, after, id) ==
    [successes |-> after[id].stats.successfulMessages - before[id].stats.successfulMessages,
     failures  |-> after[id].stats.failedMessages - before[id].stats.failedMessages]

\* C29: every scheduled execution for a schedule of an existing webhook records as
\* many successes and as many failures into the stats of the webhook as into the
\* stats of the schedule.
CexC29_TaskRecordsBoth ==
    [][IsOperationEnd =>
          LET r == lastResult' IN
          (r.kind = "task" /\ r.wid \in DOMAIN stateWebhooks
                           /\ r.sid \in DOMAIN stateSchedules) =>
              Added(stateWebhooks, stateWebhooks', r.wid)
                  = Added(stateSchedules, stateSchedules', r.sid)]_vars

\* the elements the loop of checkWebhookHealth has passed in this step
NewVisits == {health'.visits[i] : i \in (DOMAIN health'.visits) \ (DOMAIN health.visits)}

PriorityNames == {"error", "pageview", "webhook_created"}

\* C24: a track call made while enabled with a priority name starts a flush in the
\* same step, whose batch is the buffer as it was followed by the new event, and
\* leaves the buffer empty; with any other name it starts no flush and the event is
\* the last of the buffer.
ThmC24_PriorityFlush ==
    [][(IsTrackStep /\ enabled) =>
          \/ /\ Len(flushing') = Len(flushing) + 1
             /\ SubSeq(flushing', 1, Len(flushing)) = flushing
             /\ LET batch == flushing'[Len(flushing')].events IN
                /\ batch = Append(queue, batch[Len(batch)])
                /\ batch[Len(batch)].id = tracked'
                /\ batch[Len(batch)].event \in PriorityNames
             /\ queue' = <<>>
          \/ /\ flushing' = flushing
             /\ queue' = Append(queue, queue'[Len(queue')])
             /\ queue'[Len(queue')].id = tracked'
             /\ queue'[Len(queue')].event \notin PriorityNames]_vars

\* C24 happens: the batch of a flush under way ends with a priority event and holds an
\* event of another name that was buffered before it.
WitC24_BatchWithEarlierEvent ==
    \E i \in DOMAIN flushing :
       LET batch == flushing[i].events IN
       /\ Len(batch) >= 2
       /\ batch[Len(batch)].event \in PriorityNames
       /\ batch[1].event \notin PriorityNames

\* C26: once every flush that was started has written the mirror, the mirror holds
\* each event of each written batch exactly once, also when a flush was started
\* before an earlier one had written.
CexC26_OverlappingFlushesKeepAll ==
    flushing = <<>> =>
        /\ \A i \in DOMAIN delivered :
              \E j \in DOMAIN stored.recent : stored.recent[j] = delivered[i]
        /\ NoDuplicates(stored.recent)

\* C27: an event is buffered only while the stored consent is 'granted', also before
\* init() has loaded it, and a batch is written to the mirror only while the consent
\* is still 'granted', also after setConsent(false).
CexC27_ConsentHonoured ==
    [][/\ (IsTrackStep /\ (queue' # queue \/ flushing' # flushing)) => consent = "granted"
       /\ (delivered' # delivered) => consent = "granted"]_vars

(***************************************************************************)
(* C28 -- RateLimiter.getRemainingRequests against RateLimiter.checkLimit  *)
(***************************************************************************)

\* C28: getRemainingRequests(identifier, limit) is greater than 0 exactly when a
\* checkLimit(identifier, limit, windowMs) made at the same instant would be allowed,
\* also when windowMs is not 60 000 ms.
CexC28_RemainingAgreesWithCheckLimit ==
    [][IsQueryStep =>
          LET q == rlQueries'[Len(rlQueries')] IN
          (q.value > 0) <=> CheckLimitResult(requests, q.id, q.limit, rlWindow, q.t)]_vars

====
